---------------------------- MODULE Spec2Model ----------------------------
(***************************************************************************)
(* Conway's Game of Life engine of src/main.rs: Cell, Grid, the render     *)
(* call draw_cell, the generation update update_cells and the frame loop   *)
(* of main.  WIDTH and HEIGHT are compile-time constants of the program    *)
(* (500 x 300); the model draws them from small ranges and keeps them in   *)
(* the variables width and height, which no action changes.                *)
(*                                                                         *)
(* Vectors and slices are functions over 0 .. len-1, as in the source.     *)
(***************************************************************************)
EXTENDS Integers, Sequences, FiniteSets, TLC

\* ------------------------------------------------------------------ bounds
\* Largest number of cells (width * height) of an arbitrary initial grid.
MaxCells == 9
\* Largest grid of the pattern specification (blinker, block).
MaxPatternWidth == 7
MaxPatternHeight == 6
\* Grids of at most this many cells are processed in every order.
MaxPermutedCells == 4
\* A caller's pixel buffer is at most this many bytes longer than needed.
MaxExtraBytes == 2

\* ------------------------------------------------------------------- state
VARIABLES
    width,            \* WIDTH
    height,           \* HEIGHT
    cells,            \* Grid.cells: the current generation
    next_step_cells,  \* Grid.next_step_cells: the scratch buffer
    pc,               \* position in the closure of main: "draw", "render", "update"
    x,                \* loop variable of update_cells (column)
    y,                \* loop variable of update_cells (row)
    id,               \* flat index of the cell processed last (-1: none yet)
    n_count,          \* live-neighbour count computed for that cell
    frame,            \* the pixel buffer handed to draw_cell, as it is now
    frame_in,         \* the same buffer as it was when draw_cell was called
    ret,              \* how the last draw_cell call ended ("none": no call)
    cells0,           \* cells at entry of the current / last update_cells call
    next0             \* next_step_cells at entry of that call

vars == <<width, height, cells, next_step_cells, pc, x, y, id, n_count,
          frame, frame_in, ret, cells0, next0>>

\* ------------------------------------------------------------------- Cell
Cell == [is_alive : BOOLEAN]

dead_cell == [is_alive |-> FALSE]

\* neighbours.into_iter().filter(|b| *b).count()
filter_count(neighbours) == Cardinality({k \in DOMAIN neighbours : neighbours[k]})

\* Mutant: the rule applied without looking at the cell's own state.
process_next_state_ignores_self(self, neighbours) ==
    [is_alive |-> filter_count(neighbours) \in 2..3]

process_next_state(self, neighbours) ==
    LET n == filter_count(neighbours)
        is_alive_next == IF self.is_alive THEN n \in 2..3 ELSE n = 3
    IN  [is_alive |-> is_alive_next]

\* ------------------------------------------------------------------- Grid
NoCells == [i \in {} |-> dead_cell]
NoBytes == [j \in {} |-> 0]

vec_len(v) == Cardinality(DOMAIN v)

\* self.cells.get(i as usize).unwrap_or(&Cell::dead_cell()): i is an i32; the
\* cast of a negative i32 to usize yields a value of at least 2^64 - 2^31,
\* which is beyond the length of any Vec, so get returns None for it as it
\* does for every i >= len.  Only the flat index is tested.
get_or_dead(v, i) == IF i >= 0 /\ i < vec_len(v) THEN v[i] ELSE dead_cell

\* Mutant: the bottom-right lookup repeats the bottom one.
neighbour_ids_repeats_bottom(i) ==
    << i - width - 1, i - width, i - width + 1,
       i - 1,                    i + 1,
       i + width - 1, i + width, i + width >>

\* The eight flat indices update_cells looks up for the cell at flat index i,
\* from top-left to bottom-right.
neighbour_ids(i) ==
    << i - width - 1, i - width, i - width + 1,
       i - 1,                    i + 1,
       i + width - 1, i + width, i + width + 1 >>

neighbours_cell(cur, i) ==
    [k \in 1..8 |-> get_or_dead(cur, neighbour_ids(i)[k]).is_alive]

\* Mutant: the next state is written into the buffer that is being read.
update_cell_in_place(cur, nxt, i) ==
    LET c == process_next_state(cur[i], neighbours_cell(cur, i))
    IN  << [cur EXCEPT ![i] = c], [nxt EXCEPT ![i] = c] >>

\* Mutant: only cells that are alive next are written, dead ones are skipped.
update_cell_skips_dead(cur, nxt, i) ==
    LET c == process_next_state(cur[i], neighbours_cell(cur, i))
    IN  << cur, IF c.is_alive THEN [nxt EXCEPT ![i] = c] ELSE nxt >>

\* One iteration of the inner loop body for the cell at flat index i: reads
\* cur, writes nxt[i].  The result is the pair <<cells, next_step_cells>>.
update_cell(cur, nxt, i) ==
    << cur, [nxt EXCEPT ![i] = process_next_state(cur[i], neighbours_cell(cur, i))] >>

\* Mutant: the scratch buffer is copied into cells instead of swapped.
mem_swap_copies(a, b) == << a, a >>

\* std::mem::swap(&mut self.next_step_cells, &mut self.cells)
mem_swap(a, b) == << b, a >>

White == <<255, 255, 255, 255>>
Black == <<0, 0, 0, 0>>

Min(a, b) == IF a < b THEN a ELSE b

\* self.cells.iter().zip(frame.chunks_exact_mut(4)): chunks_exact_mut yields
\* len / 4 whole chunks (a remainder of fewer than 4 bytes is left out) and
\* zip stops at the shorter of the two iterators.
zip_len(cur, buf) == Min(vec_len(cur), vec_len(buf) \div 4)

\* Mutant: the alpha channel of every pixel is left as it was.
draw_cell_keeps_alpha(cur, buf) ==
    [j \in DOMAIN buf |->
        IF j \div 4 < zip_len(cur, buf) /\ j % 4 # 3
        THEN (IF cur[j \div 4].is_alive THEN White ELSE Black)[(j % 4) + 1]
        ELSE buf[j]]

draw_cell(cur, buf) ==
    [j \in DOMAIN buf |->
        IF j \div 4 < zip_len(cur, buf)
        THEN (IF cur[j \div 4].is_alive THEN White ELSE Black)[(j % 4) + 1]
        ELSE buf[j]]

\* -------------------------------------------------------------- inputs
\* Content of a caller's buffer before the call: every byte the same value.
FillBytes == {170}

Buffer(len, b) == [j \in 0 .. len - 1 |-> b]

\* ------------------------------------------------------------------- Init
\* Grid::get_randomized_grid(): every cell alive or dead as the generator
\* decides, the scratch buffer all dead.
Constructed ==
    /\ next_step_cells = [i \in 0 .. width * height - 1 |-> dead_cell]
    /\ pc = "draw"
    /\ x = 0
    /\ y = 0
    /\ id = -1
    /\ n_count = 0
    /\ frame = NoBytes
    /\ frame_in = NoBytes
    /\ ret = "none"
    /\ cells0 = NoCells
    /\ next0 = NoCells

Init ==
    /\ width \in 1 .. MaxCells
    /\ height \in 1 .. MaxCells
    /\ width * height <= MaxCells
    /\ cells \in [0 .. width * height - 1 -> Cell]
    /\ Constructed

\* ---------------------------------------------------------------- actions
\* grid.draw_cell(frame), the whole call.
DrawCell ==
    /\ pc = "draw"
    /\ \E len \in 0 .. 4 * width * height + MaxExtraBytes, b \in FillBytes :
          /\ frame_in' = Buffer(len, b)
          /\ frame' = draw_cell(cells, Buffer(len, b))
    /\ ret' = "ok"
    /\ pc' = "render"
    /\ UNCHANGED <<width, height, cells, next_step_cells, x, y, id, n_count,
                   cells0, next0>>

\* pixels.render(); window.request_redraw(): the frame is presented and the
\* borrow of the pixel buffer ends.
Render ==
    /\ pc = "render"
    /\ pc' = "update"
    /\ frame' = NoBytes
    /\ frame_in' = NoBytes
    /\ ret' = "none"
    /\ UNCHANGED <<width, height, cells, next_step_cells, x, y, id, n_count,
                   cells0, next0>>

\* One iteration of the loops of update_cells: for x in 0..WIDTH, for y in
\* 0..HEIGHT.
UpdateCell ==
    /\ pc = "update"
    /\ x < width
    /\ LET i == x + y * width
           r == update_cell(cells, next_step_cells, i)
       IN  /\ id' = i
           /\ n_count' = filter_count(neighbours_cell(cells, i))
           /\ cells' = r[1]
           /\ next_step_cells' = r[2]
    /\ IF y + 1 < height
       THEN y' = y + 1 /\ x' = x
       ELSE y' = 0 /\ x' = x + 1
    /\ IF x = 0 /\ y = 0
       THEN cells0' = cells /\ next0' = next_step_cells
       ELSE UNCHANGED <<cells0, next0>>
    /\ UNCHANGED <<width, height, pc, frame, frame_in, ret>>

\* The end of update_cells: the loops are over, the buffers are swapped.
SwapCells ==
    /\ pc = "update"
    /\ x = width
    /\ LET r == mem_swap(next_step_cells, cells)
       IN  /\ next_step_cells' = r[1]
           /\ cells' = r[2]
    /\ x' = 0
    /\ y' = 0
    /\ pc' = "draw"
    /\ UNCHANGED <<width, height, id, n_count, frame, frame_in, ret, cells0, next0>>

Next == DrawCell \/ Render \/ UpdateCell \/ SwapCells

Spec == Init /\ [][Next]_vars

\* Grids of the pattern specification: the only live cells are a horizontal
\* blinker or a 2x2 block, every live cell at least 2 cells away from every
\* edge of the grid.
BlinkerRow(r, c) ==
    [i \in 0 .. width * height - 1 |->
        [is_alive |-> i \div width = r /\ i % width \in c - 1 .. c + 1]]

BlinkerCol(r, c) ==
    [i \in 0 .. width * height - 1 |->
        [is_alive |-> i % width = c /\ i \div width \in r - 1 .. r + 1]]

Block(r, c) ==
    [i \in 0 .. width * height - 1 |->
        [is_alive |-> i \div width \in r .. r + 1 /\ i % width \in c .. c + 1]]

\* Positions (row, column) of the middle cell of a blinker, and of the
\* top-left cell of a block, that keep every live cell of the initial
\* pattern 2 cells away from the edges.
BlinkerAt == (2 .. height - 3) \X (3 .. width - 4)
BlockAt == (2 .. height - 4) \X (2 .. width - 4)

InitPatterns ==
    /\ width \in 6 .. MaxPatternWidth
    /\ height \in 5 .. MaxPatternHeight
    /\ cells \in {BlinkerRow(p[1], p[2]) : p \in BlinkerAt}
                    \cup {Block(p[1], p[2]) : p \in BlockAt}
    /\ Constructed

SpecPatterns == InitPatterns /\ [][Next]_vars

\* ================================================================ claims
\* Row and column of a flat index (row-major: index = row * width + column).
RowOf(i) == i \div width
ColOf(i) == i % width

\* The number of live cells of cur among the 8 coordinates around (r, c)
\* that lie inside the grid.
LiveInBounds(cur, r, c) ==
    Cardinality({d \in ((-1 .. 1) \X (-1 .. 1)) \ {<<0, 0>>} :
                    /\ r + d[1] \in 0 .. height - 1
                    /\ c + d[2] \in 0 .. width - 1
                    /\ cur[(r + d[1]) * width + (c + d[2])].is_alive})

\* A cell has been processed by update_cells (id, n_count and cells0 belong
\* to the same step).
Processed == id # -1

\* Between the swap of one update_cells call and the first step of the next.
AfterCall == Processed /\ x = 0 /\ y = 0

\* The cell value written for the cell processed last: in the scratch buffer
\* until the swap, in cells after it.
LastWritten == IF AfterCall THEN cells[id] ELSE next_step_cells[id]

AllDead(cur) == \A i \in DOMAIN cur : ~cur[i].is_alive

FlipAt(cur, i) == [cur EXCEPT ![i] = [is_alive |-> ~cur[i].is_alive]]

\* The generation update_cells computes from cur.
Generation(cur) ==
    [i \in DOMAIN cur |-> process_next_state(cur[i], neighbours_cell(cur, i))]

\* C1: the live-neighbour count fed to the rule for the cell at (r, c) is the
\* number of live cells of the current generation among the 8 surrounding
\* coordinates that lie inside the grid; out-of-range rows and columns count 0.
C1_CountIsInBoundsNeighbours ==
    Processed => n_count = LiveInBounds(cells0, RowOf(id), ColOf(id))

\* C2: for width >= 3 the cell at column 0 of a row does not look up the cell
\* at column width-1 of the same row (nor the other way round), and flipping
\* that cell does not change the next state written for it.
C2_NoWrapWithinRow ==
    (Processed /\ width >= 3 /\ ColOf(id) \in {0, width - 1}) =>
        LET other == IF ColOf(id) = 0 THEN id + width - 1 ELSE id - width + 1
        IN  /\ \A k \in 1..8 : neighbour_ids(id)[k] # other
            /\ LastWritten =
                 process_next_state(cells0[id], neighbours_cell(FlipAt(cells0, other), id))

\* C3: the cell written by process_next_state follows B3/S23: a live cell
\* is alive next iff it has 2 or 3 live neighbours, a dead cell iff it has
\* exactly 3; a live cell without live neighbours dies.
C3_RuleB3S23 ==
    Processed =>
        LET flags == neighbours_cell(cells0, id)
            n == Cardinality({k \in 1..8 : flags[k] = TRUE})
        IN  /\ cells0[id].is_alive => (LastWritten.is_alive <=> n \in {2, 3})
            /\ ~cells0[id].is_alive => (LastWritten.is_alive <=> n = 3)
            /\ (cells0[id].is_alive /\ n = 0) => ~LastWritten.is_alive

C3_Witness ==
    /\ Processed
    /\ cells0[id].is_alive
    /\ n_count = 0
    /\ ~LastWritten.is_alive
    /\ width = 3 /\ height = 3 /\ id = 4

\* C4: a draw_cell call with a buffer shorter than width*height*4 bytes ends
\* with an error signal and leaves the buffer as it was.
C4_ShortBufferRejected ==
    (ret # "none" /\ vec_len(frame_in) < width * height * 4) =>
        (ret = "error" /\ frame = frame_in)

\* C5: a draw_cell call with a buffer of exactly width*height*4 bytes
\* succeeds and bytes 4i..4i+3 are ff,ff,ff,ff when cell i is alive and
\* 0,0,0,0 when it is dead.
C5_ExactBufferPainted ==
    (ret # "none" /\ vec_len(frame_in) = width * height * 4) =>
        /\ ret = "ok"
        /\ DOMAIN frame = 0 .. width * height * 4 - 1
        /\ \A i \in 0 .. width * height - 1 : \A k \in 0 .. 3 :
              frame[4 * i + k] = IF cells[i].is_alive THEN 255 ELSE 0

C5_Witness ==
    /\ ret = "ok"
    /\ vec_len(frame_in) = width * height * 4
    /\ width >= 2 /\ height >= 2
    /\ cells[0].is_alive
    /\ ~cells[1].is_alive
    /\ cells[width * height - 1].is_alive
    /\ frame # frame_in

\* C6: a horizontal blinker 2 cells away from every edge becomes the
\* vertical blinker through its middle cell at the swap of an update_cells
\* call, the vertical one becomes the horizontal one again, the two differ,
\* and no other step changes the grid.
C6_BlinkerAlternates ==
    [][ \A p \in BlinkerAt :
          LET row == BlinkerRow(p[1], p[2])
              col == BlinkerCol(p[1], p[2])
              swapped == pc = "update" /\ pc' = "draw"
          IN  /\ row # col
              /\ cells = row => cells' = IF swapped THEN col ELSE row
              /\ cells = col => cells' = IF swapped THEN row ELSE col ]_vars

C6_Witness ==
    /\ AfterCall
    /\ \E p \in BlinkerAt :
          /\ next0 = BlinkerRow(p[1], p[2])
          /\ cells0 = BlinkerCol(p[1], p[2])
          /\ cells = BlinkerRow(p[1], p[2])

\* C7: a grid whose only live cells are a 2x2 block 2 cells away from every
\* edge is left unchanged by every step, hence by any number of
\* update_cells calls.
C7_BlockIsStill ==
    [][ (\E p \in BlockAt : cells = Block(p[1], p[2])) => cells' = cells ]_vars

C7_Witness ==
    /\ AfterCall
    /\ \E p \in BlockAt :
          /\ cells0 = Block(p[1], p[2])
          /\ next0 = Block(p[1], p[2])
          /\ cells = Block(p[1], p[2])

\* C8: once every cell of the current generation is dead, every cell of the
\* current generation is dead after every step, whatever the scratch buffer
\* holds.
C8_AllDeadStays ==
    [][ AllDead(cells) => AllDead(cells') ]_vars

C8_Witness ==
    /\ AfterCall
    /\ AllDead(cells0)
    /\ ~AllDead(next0)
    /\ AllDead(cells)

\* C9: both buffers always have width*height cells; after an update_cells
\* call cells is the generation computed from the cells of before the call
\* and next_step_cells is exactly those previous cells.
C9_BuffersSwapped ==
    /\ DOMAIN cells = 0 .. width * height - 1
    /\ DOMAIN next_step_cells = 0 .. width * height - 1
    /\ AfterCall =>
          /\ cells = Generation(cells0)
          /\ next_step_cells = cells0

C9_Witness ==
    /\ AfterCall
    /\ ~AllDead(next0)
    /\ next0 # cells0
    /\ next0 # cells
    /\ cells # cells0
    /\ next_step_cells = cells0

\* Orders in which the cells of one generation can be processed.
RowMajor == [k \in 1 .. width * height |-> k - 1]
RowMajorReversed == [k \in 1 .. width * height |-> width * height - k]
ColMajorReversed ==
    [k \in 1 .. width * height |->
        LET j == width * height - k
        IN  (j \div height) + (j % height) * width]
\* Every order of the cells, for grids of at most MaxPermutedCells cells.
AllOrders ==
    IF width * height <= MaxPermutedCells
    THEN {[k \in 1 .. width * height |-> f[k] - 1] :
              f \in Permutations(1 .. width * height)}
    ELSE {}
Orders == {RowMajor, RowMajorReversed, ColMajorReversed} \cup AllOrders

\* The buffers after the loop body has run for the cells of order o, in turn.
RECURSIVE RunOrder(_, _, _)
RunOrder(cur, nxt, o) ==
    IF o = <<>> THEN <<cur, nxt>>
    ELSE LET r == update_cell(cur, nxt, Head(o))
         IN  RunOrder(r[1], r[2], Tail(o))

\* C10: a loop step of update_cells leaves cells unchanged, writes the
\* scratch buffer only at the index of the processed cell, with a value that
\* depends on cells alone; when the last cell is processed the scratch buffer
\* is what processing the cells in any other order would have produced.
C10_StepReadsCurrentWritesScratch ==
    [][ (pc = "update" /\ x < width) =>
          /\ id' = x + y * width
          /\ cells' = cells
          /\ \A j \in DOMAIN next_step_cells :
                j # id' => next_step_cells'[j] = next_step_cells[j]
          /\ next_step_cells'[id'] = Generation(cells)[id']
          /\ x' = width =>
                \A o \in Orders :
                    RunOrder(cells0', next0', o) = <<cells', next_step_cells'>> ]_vars

C10_Witness ==
    /\ pc = "update"
    /\ x = width
    /\ width >= 2 /\ height >= 2
    /\ ~AllDead(next0)
    /\ next_step_cells # next0
    /\ cells = cells0
    /\ RowMajor # [k \in 1 .. width * height |-> ((k - 1) \div height) + ((k - 1) % height) * width]

=============================================================================
